---- MODULE Spec2Model ----
(***************************************************************************)
(* Board Game Cafe: reservations, tables and the two reservation stores.   *)
(*                                                                         *)
(* Reservation objects (BGC_operation.Reservation) live in a heap `res`;   *)
(* the caller constructs them and hands them to one of the two             *)
(* create_reservation entry points:                                        *)
(*   - ReservationManager.create_reservation  (BGC_person.py), which keeps *)
(*     a dict  reservation_id -> Reservation;                              *)
(*   - BoardGameCafe.create_reservation (BGC.py), which keeps the list     *)
(*     branch.reservations.                                                *)
(* Time is in minutes; datetime.now() is the variable `now`.               *)
(***************************************************************************)
EXTENDS Integers, Sequences, FiniteSets, TLC

\* ------------------------------------------------------------------------
\* Bounds of the model
\* ------------------------------------------------------------------------
MaxRes == 2        \* Reservation objects the caller constructs (Spec)
MaxLifeRes == 1    \* Reservation objects the caller constructs (SpecLife)
MaxCtorRes == 1    \* Reservation objects the caller constructs (SpecCtor)
MaxOrders == 1     \* Order objects (SpecOrder, SpecPay)
MaxLines == 2      \* lines added to an order (SpecOrder)
MaxPayLines == 1   \* lines added to an order (SpecPay)
MaxOrderPayments == 1    \* payment objects (SpecOrder)
MaxPayments == 2         \* payment objects (SpecPay)
MaxPaymentCounter == 2   \* calls of PaymentManager.process_payment
MaxBranchPayments == 2   \* entries of branch.payments
MaxLineItems == 2        \* lines added to an order (SpecLines)
MaxTableOrders == 1      \* Order objects (SpecTable)
MaxSpend == 20001        \* lifetime spend a member reaches (SpecTier)
MaxTablePlays == 1       \* times a game is put in use (SpecTable)
MaxPlays == 2            \* times a game is put in use (SpecGame)
MaxConcRes == 3          \* Reservation objects the threads ask to store (SpecConc)
MaxQueryRes == 2         \* Reservation objects the caller constructs (SpecQuery)

\* ------------------------------------------------------------------------
\* Program constants
\* ------------------------------------------------------------------------
RESERVATION_GRACE_PERIOD_MINUTES == 15
DEFAULT_TABLE_PRICE_PER_HOUR_THB == 5000    \* 50.0; money is in hundredths of a baht
VIP_ROOM_BASE_FEE_THB == 20000              \* 200.0
DEFAULT_TAX_RATE_PERCENT == 7               \* DEFAULT_TAX_RATE = 0.07

\* ------------------------------------------------------------------------
\* Input domains
\* ------------------------------------------------------------------------
Tables == {"T001", "T002"}
capacity == [t \in Tables |-> IF t = "T001" THEN 1 ELSE 2]

\* T001 is a PlayTableStandard, T002 a PlayTableVIP
price_per_hour == [t \in Tables |-> DEFAULT_TABLE_PRICE_PER_HOUR_THB]
room_service_fee == [t \in Tables |-> IF t = "T002" THEN VIP_ROOM_BASE_FEE_THB ELSE 0]

\* PlayTable.calculate_table_charge, with PlayTableVIP's override
calculate_table_charge(t, hours) ==
    IF t = "T002"
    THEN price_per_hour[t] * hours + room_service_fee[t]
    ELSE price_per_hour[t] * hours

Members == {"m1", "m2"}
WalkIn == "walkin"
None == -1
BadTime == -1

\* "HH:MM" strings as minutes of the day: 14:00, 15:00, 16:00; BadTime is a
\* string strptime does not parse
HM(h, m) == h * 60 + m
StartTimes == {HM(14, 0), HM(15, 0), HM(16, 0)}
TimeStrs == StartTimes \cup {BadTime}
GuestCounts == 0..3
ReservationIds == 1..(MaxRes + 1)
Reasons == {"", "Change of plans"}

\* the date every request names: eight days after the clock's first instant
ResDay == 7 + 1

\* datetime.strptime(f"{date_str} {time_str}", "%Y-%m-%d %H:%M"), in minutes
strptime(d, hm) == d * 1440 + hm

\* the instants the clock shows: eight days ahead, then 13:30, 14:15 and 14:16
\* on the day
Instants ==
    { 0,
      strptime(ResDay, HM(13, 30)),
      strptime(ResDay, HM(14, 0)) + RESERVATION_GRACE_PERIOD_MINUTES,
      strptime(ResDay, HM(14, 0)) + RESERVATION_GRACE_PERIOD_MINUTES + 1 }

\* the threads calling into one ReservationManager, and a thread outside
\* create_reservation
Threads == {"th1", "th2"}
Idle == [at |-> "idle", o |-> 0]

VARIABLES
    res,                  \* heap of Reservation objects, in construction order
    mgr_reservations,     \* ReservationManager._reservations: id -> object (0: absent)
    branch_reservations,  \* BGC.py branch.reservations: list of objects
    tables,               \* PlayTable state per table
    now,                  \* datetime.now()
    total_spend,          \* Member.total_spend
    last,                 \* the last call made and its outcome
    orders,               \* heap of Order objects, in construction order
    payments,             \* heap of payment objects, in construction order
    mgr_payments,         \* PaymentManager._payments: set of payment objects
    payment_counter,      \* PaymentManager._payment_counter
    branch_payments,      \* BGC.py branch.payments: list of payment objects
    menu,                 \* MenuItem state per item: price, stock level, availability flag
    games,                \* BoardGame state per game: status, current table, play count
    pc                    \* per caller thread: where it is inside create_reservation

\* the order and payment state, and the reservation state
payvars == <<orders, payments, mgr_payments, payment_counter, branch_payments>>
resvars == <<res, mgr_reservations, branch_reservations, now, total_spend, pc>>
\* the catalogue: menu items and board games
catvars == <<menu, games>>

vars == <<res, mgr_reservations, branch_reservations, tables, now, total_spend, last,
          orders, payments, mgr_payments, payment_counter, branch_payments, menu, games, pc>>

Objs == 1..Len(res)

\* ------------------------------------------------------------------------
\* Tier policy (Member; the class is not part of the sources at hand)
\* ------------------------------------------------------------------------
get_tier_mut(spend) ==
    IF spend > 20000 THEN "Platinum"
    ELSE IF spend > 7500 THEN "Gold"
    ELSE IF spend > 2000 THEN "Silver"
    ELSE "None"

get_tier(spend) ==
    IF spend >= 20000 THEN "Platinum"
    ELSE IF spend >= 7500 THEN "Gold"
    ELSE IF spend >= 2000 THEN "Silver"
    ELSE "None"

max_bookings(tier) ==
    CASE tier = "Silver" -> 2 [] tier = "Gold" -> 4 [] tier = "Platinum" -> 6 [] OTHER -> 0

max_duration_hours(tier) ==
    CASE tier = "Silver" -> 2 [] tier = "Gold" -> 3 [] tier = "Platinum" -> 4 [] OTHER -> 0

max_advance_days(tier) ==
    CASE tier = "Silver" -> 7 [] tier = "Gold" -> 14 [] tier = "Platinum" -> 30 [] OTHER -> 0

get_max_active_bookings(c) == max_bookings(get_tier(total_spend[c]))

\* hasattr(customer, 'get_max_active_bookings')
has_get_max_active_bookings(c) == c \in Members

\* ------------------------------------------------------------------------
\* The record of a call
\* ------------------------------------------------------------------------
Call(op, o, id, out) ==
    [op |-> op, o |-> o, id |-> id, table |-> "-", guest_count |-> 0,
     start |-> 0, end |-> 0, reason |-> "", out |-> out,
     order |-> 0, p |-> 0, method |-> "-", amount |-> 0, arg |-> <<>>,
     payment_id |-> "", game |-> "-"]

\* Member.increment_spend and Member.get_tier, as calls
increment_spend(c, amount) ==
    /\ total_spend' = [total_spend EXCEPT ![c] = @ + amount]
    /\ last' = [Call("increment_spend", 0, 0, "None") EXCEPT !.method = c, !.amount = amount]
    /\ UNCHANGED <<res, mgr_reservations, branch_reservations, tables, now, payvars, catvars, pc>>

Member_get_tier(c) ==
    /\ last' = [Call("get_tier", 0, 0, get_tier(total_spend[c])) EXCEPT !.method = c]
    /\ UNCHANGED <<res, mgr_reservations, branch_reservations, tables, now, total_spend,
                   payvars, catvars, pc>>

\* ------------------------------------------------------------------------
\* Reservation.__init__
\* ------------------------------------------------------------------------
\* mutant: the lower bound of the guest count is not checked
Reservation_error_mut(t, start_hm, end_hm, g) ==
    IF g > capacity[t] THEN "ValueError: Guest count exceeds table capacity"
    ELSE IF start_hm = BadTime \/ end_hm = BadTime THEN "ValueError: Invalid date/time format"
    ELSE IF strptime(ResDay, end_hm) <= strptime(ResDay, start_hm)
         THEN "ValueError: End time must be after start time"
    ELSE "ok"

Reservation_error(t, start_hm, end_hm, g) ==
    IF g < 1 THEN "ValueError: Guest count must be at least 1"
    ELSE IF g > capacity[t] THEN "ValueError: Guest count exceeds table capacity"
    ELSE IF start_hm = BadTime \/ end_hm = BadTime THEN "ValueError: Invalid date/time format"
    ELSE IF strptime(ResDay, end_hm) <= strptime(ResDay, start_hm)
         THEN "ValueError: End time must be after start time"
    ELSE "ok"

Reservation(id, c, t, start_hm, end_hm, g) ==
    /\ LET err == Reservation_error(t, start_hm, end_hm, g)
           call == [Call("Reservation", 0, id, err) EXCEPT
                        !.table = t, !.guest_count = g,
                        !.start = start_hm, !.end = end_hm]
       IN  IF err # "ok"
           THEN /\ res' = res
                /\ last' = call
           ELSE /\ res' = Append(res,
                        [reservation_id |-> id, customer |-> c, table |-> t,
                         start_datetime |-> strptime(ResDay, start_hm),
                         end_datetime |-> strptime(ResDay, end_hm),
                         guest_count |-> g, status |-> "Pending",
                         cancellation_reason |-> ""])
                /\ last' = [call EXCEPT !.o = Len(res) + 1]
    /\ UNCHANGED <<mgr_reservations, branch_reservations, tables, now, total_spend, payvars, catvars, pc>>

\* ------------------------------------------------------------------------
\* Reservation lifecycle methods: the status/reason they leave and what they
\* return or raise
\* ------------------------------------------------------------------------
confirm_booking_out(o) ==
    IF res[o].status # "Pending"
    THEN "ValueError: Cannot confirm reservation"
    ELSE "True"

confirm_booking_res(o) ==
    IF res[o].status # "Pending"
    THEN res
    ELSE [res EXCEPT ![o].status = "Confirmed"]

cancel_booking_out(o) ==
    IF res[o].status \in {"Completed", "No Show"}
    THEN "ValueError: Cannot cancel reservation"
    ELSE "True"

cancel_booking_res(o, reason) ==
    IF res[o].status \in {"Completed", "No Show"}
    THEN res
    ELSE [res EXCEPT ![o].status = "Cancelled", ![o].cancellation_reason = reason]

\* ------------------------------------------------------------------------
\* BoardGame
\* ------------------------------------------------------------------------
Games == {"G1", "G2"}
GameStatuses == {"Available", "In Use", "Maintenance", "Retired"}
ConditionNotes == {"like new", "box is Damaged"}
NoTableLink == "-"

\* the fields BoardGame.mark_available leaves
marked_available(game) ==
    [game EXCEPT !.status = "Available", !.current_table = NoTableLink]

\* the outcome of BoardGame.mark_in_use, and the fields it leaves
mark_in_use_out(g) ==
    IF games[g].status # "Available" THEN "ValueError: Game is not available" ELSE "None"

marked_in_use_mut(g, t) ==
    IF mark_in_use_out(g) # "None" THEN games[g]
    ELSE [games[g] EXCEPT !.status = "In Use", !.current_table = t]

marked_in_use(g, t) ==
    IF mark_in_use_out(g) # "None" THEN games[g]
    ELSE [games[g] EXCEPT !.status = "In Use", !.current_table = t, !.times_played = @ + 1]

\* "damaged" in notes.lower() or "broken" in notes.lower()
mentions_damage(notes) == notes \in {"box is Damaged", "BROKEN lid"}

\* what a call on a BoardGame leaves: the call changes `games` alone
GameCall(op, g, t, arg, out, new_game) ==
    /\ games' = [games EXCEPT ![g] = new_game]
    /\ last' = [Call(op, 0, 0, out) EXCEPT !.game = g, !.table = t, !.reason = arg]
    /\ UNCHANGED <<resvars, tables, payvars, menu>>

set_status(g, status) ==
    GameCall("set_status", g, "-", status, "None", [games[g] EXCEPT !.status = status])

update_condition(g, notes) ==
    GameCall("update_condition", g, "-", notes, "None",
             IF mentions_damage(notes)
             THEN [games[g] EXCEPT !.status = "Maintenance"]
             ELSE games[g])

mark_in_use(g, t) ==
    GameCall("mark_in_use", g, t, "", mark_in_use_out(g), marked_in_use(g, t))

BoardGame_mark_available(g) ==
    GameCall("BoardGame.mark_available", g, "-", "", "None", marked_available(games[g]))

\* ------------------------------------------------------------------------
\* PlayTable
\* ------------------------------------------------------------------------
\* board_game in self._board_games
holds_game(t, g) == \E k \in DOMAIN tables[t].board_games : tables[t].board_games[k] = g

assign_customer_out_mut(t) ==
    IF Len(tables[t].current_customers) >= capacity[t]
    THEN "ValueError: Table is at capacity"
    ELSE "None"

assign_customer_out(t) ==
    IF tables[t].status # "Available"
    THEN "ValueError: Table is not available"
    ELSE IF Len(tables[t].current_customers) >= capacity[t]
    THEN "ValueError: Table is at capacity"
    ELSE "None"

assign_customer_tables_mut(t, c) ==
    IF assign_customer_out(t) # "None"
    THEN tables
    ELSE [tables EXCEPT
            ![t].current_customers = Append(@, c),
            ![t].status = "Occupied"]

assign_customer_tables(t, c) ==
    IF assign_customer_out(t) # "None"
    THEN tables
    ELSE [tables EXCEPT
            ![t].current_customers = Append(@, c),
            ![t].status = "Occupied",
            ![t].occupied_since = IF @ = None THEN now ELSE @]

assign_customer(t, c) ==
    /\ tables' = assign_customer_tables(t, c)
    /\ last' = [Call("assign_customer", 0, 0, assign_customer_out(t)) EXCEPT !.table = t]
    /\ UNCHANGED <<res, mgr_reservations, branch_reservations, now, total_spend, payvars, catvars, pc>>

clear_table(t) ==
    /\ games' = [g \in Games |->
            IF holds_game(t, g)
            THEN marked_available(games[g])
            ELSE games[g]]
    /\ tables' = [tables EXCEPT ![t] =
            [status |-> "Available", current_customers |-> <<>>, board_games |-> <<>>,
             active_order |-> 0, occupied_since |-> None]]
    /\ last' = [Call("clear_table", 0, 0, "None")
                EXCEPT !.table = t, !.guest_count = Len(tables[t].current_customers)]
    /\ UNCHANGED <<res, mgr_reservations, branch_reservations, now, total_spend, payvars, menu, pc>>

\* what a game call on a PlayTable leaves
TableGameCall(op, t, g, out, new_games, new_board_games) ==
    /\ games' = new_games
    /\ tables' = [tables EXCEPT ![t].board_games = new_board_games]
    /\ last' = [Call(op, 0, 0, out) EXCEPT !.game = g, !.table = t]
    /\ UNCHANGED <<resvars, payvars, menu>>

add_board_game(t, g) ==
    IF holds_game(t, g)
    THEN TableGameCall("add_board_game", t, g, "ValueError: Game is already at this table",
                       games, tables[t].board_games)
    ELSE IF mark_in_use_out(g) # "None"
    THEN TableGameCall("add_board_game", t, g, mark_in_use_out(g),
                       games, tables[t].board_games)
    ELSE TableGameCall("add_board_game", t, g, "None",
                       [games EXCEPT ![g] = marked_in_use(g, t)],
                       Append(tables[t].board_games, g))

\* list.remove: the first occurrence of the game leaves the list
remove_first(list, g) ==
    LET k == CHOOSE i \in DOMAIN list : list[i] = g /\ \A j \in 1..(i - 1) : list[j] # g
    IN  [i \in 1..(Len(list) - 1) |-> IF i < k THEN list[i] ELSE list[i + 1]]

remove_board_game(t, g) ==
    IF ~holds_game(t, g)
    THEN TableGameCall("remove_board_game", t, g, "ValueError: Game is not at this table",
                       games, tables[t].board_games)
    ELSE TableGameCall("remove_board_game", t, g, "None",
                       [games EXCEPT ![g] = marked_available(games[g])],
                       remove_first(tables[t].board_games, g))

set_maintenance(t) ==
    /\ IF tables[t].status = "Occupied"
       THEN /\ tables' = tables
            /\ last' = [Call("set_maintenance", 0, 0,
                             "ValueError: Cannot set occupied table to maintenance")
                        EXCEPT !.table = t]
       ELSE /\ tables' = [tables EXCEPT ![t].status = "Maintenance"]
            /\ last' = [Call("set_maintenance", 0, 0, "None") EXCEPT !.table = t]
    /\ UNCHANGED <<res, mgr_reservations, branch_reservations, now, total_spend, payvars, catvars, pc>>

\* ------------------------------------------------------------------------
\* Reservation methods called on the object
\* ------------------------------------------------------------------------
confirm_booking(o) ==
    /\ res' = confirm_booking_res(o)
    /\ last' = Call("confirm_booking", o, 0, confirm_booking_out(o))
    /\ UNCHANGED <<mgr_reservations, branch_reservations, tables, now, total_spend, payvars, catvars, pc>>

cancel_booking(o, reason) ==
    /\ res' = cancel_booking_res(o, reason)
    /\ last' = [Call("cancel_booking", o, 0, cancel_booking_out(o)) EXCEPT !.reason = reason]
    /\ UNCHANGED <<mgr_reservations, branch_reservations, tables, now, total_spend, payvars, catvars, pc>>

\* mutant: the grace period ends one minute early (>= for >)
check_in_mut(o) ==
    /\ IF res[o].status # "Confirmed"
       THEN /\ res' = res
            /\ tables' = tables
            /\ last' = Call("check_in", o, 0,
                            "ValueError: Only confirmed reservations can be checked in")
       ELSE IF now >= res[o].start_datetime + RESERVATION_GRACE_PERIOD_MINUTES
       THEN /\ res' = [res EXCEPT ![o].status = "No Show"]
            /\ tables' = tables
            /\ last' = Call("check_in", o, 0,
                            "ValueError: Check-in time has passed grace period")
       ELSE /\ res' = [res EXCEPT ![o].status = "Checked In"]
            /\ tables' = assign_customer_tables(res[o].table, res[o].customer)
            /\ last' = Call("check_in", o, 0,
                            IF assign_customer_out(res[o].table) = "None"
                            THEN "True"
                            ELSE assign_customer_out(res[o].table))
    /\ UNCHANGED <<mgr_reservations, branch_reservations, now, total_spend, payvars, catvars, pc>>

check_in(o) ==
    /\ IF res[o].status # "Confirmed"
       THEN /\ res' = res
            /\ tables' = tables
            /\ last' = Call("check_in", o, 0,
                            "ValueError: Only confirmed reservations can be checked in")
       ELSE IF now > res[o].start_datetime + RESERVATION_GRACE_PERIOD_MINUTES
       THEN /\ res' = [res EXCEPT ![o].status = "No Show"]
            /\ tables' = tables
            /\ last' = Call("check_in", o, 0,
                            "ValueError: Check-in time has passed grace period")
       ELSE /\ res' = [res EXCEPT ![o].status = "Checked In"]
            /\ tables' = assign_customer_tables(res[o].table, res[o].customer)
            /\ last' = Call("check_in", o, 0,
                            IF assign_customer_out(res[o].table) = "None"
                            THEN "True"
                            ELSE assign_customer_out(res[o].table))
    /\ UNCHANGED <<mgr_reservations, branch_reservations, now, total_spend, payvars, catvars, pc>>

\* mutant: completing the reservation also clears its table
complete_mut(o) ==
    /\ IF res[o].status # "Checked In"
       THEN /\ res' = res
            /\ tables' = tables
            /\ last' = Call("complete", o, 0,
                            "ValueError: Only checked-in reservations can be completed")
       ELSE /\ res' = [res EXCEPT ![o].status = "Completed"]
            /\ tables' = [tables EXCEPT ![res[o].table] =
                    [status |-> "Available", current_customers |-> <<>>, board_games |-> <<>>,
                     active_order |-> 0, occupied_since |-> None]]
            /\ last' = Call("complete", o, 0, "True")
    /\ UNCHANGED <<mgr_reservations, branch_reservations, now, total_spend, payvars, catvars, pc>>

complete(o) ==
    /\ IF res[o].status # "Checked In"
       THEN /\ res' = res
            /\ last' = Call("complete", o, 0,
                            "ValueError: Only checked-in reservations can be completed")
       ELSE /\ res' = [res EXCEPT ![o].status = "Completed"]
            /\ last' = Call("complete", o, 0, "True")
    /\ UNCHANGED <<mgr_reservations, branch_reservations, tables, now, total_spend, payvars, catvars, pc>>

mark_no_show(o) ==
    /\ IF res[o].status # "Confirmed"
       THEN /\ res' = res
            /\ last' = Call("mark_no_show", o, 0,
                            "ValueError: Only confirmed reservations can be marked as no-show")
       ELSE /\ res' = [res EXCEPT ![o].status = "No Show"]
            /\ last' = Call("mark_no_show", o, 0, "True")
    /\ UNCHANGED <<mgr_reservations, branch_reservations, tables, now, total_spend, payvars, catvars, pc>>

\* ------------------------------------------------------------------------
\* ReservationManager (BGC_person.py)
\* ------------------------------------------------------------------------
MgrStored == {mgr_reservations[i] : i \in DOMAIN mgr_reservations} \ {0}

\* mutant: the second comparison is made against the end, not the start
overlaps_mut(a, b) ==
    /\ res[a].start_datetime < res[b].end_datetime
    /\ res[a].end_datetime > res[b].end_datetime

overlaps(a, b) ==
    /\ res[a].start_datetime < res[b].end_datetime
    /\ res[a].end_datetime > res[b].start_datetime

\* mutant: Pending reservations are skipped with the finished ones
has_conflict_mut(new) ==
    \E existing \in MgrStored :
        /\ res[existing].status \notin {"Cancelled", "Completed", "No Show", "Pending"}
        /\ res[existing].table = res[new].table
        /\ overlaps(new, existing)

has_conflict(new) ==
    \E existing \in MgrStored :
        /\ res[existing].status \notin {"Cancelled", "Completed", "No Show"}
        /\ res[existing].table = res[new].table
        /\ overlaps(new, existing)

count_active_reservations(c) ==
    Cardinality({e \in MgrStored :
        /\ res[e].customer = c
        /\ res[e].status \in {"Pending", "Confirmed", "Checked In"}})

ReservationManager_create_reservation(o) ==
    /\ IF has_conflict(o)
       THEN /\ mgr_reservations' = mgr_reservations
            /\ last' = Call("ReservationManager.create_reservation", o, res[o].reservation_id,
                            "ValueError: Reservation conflicts with existing booking")
       ELSE IF /\ has_get_max_active_bookings(res[o].customer)
               /\ count_active_reservations(res[o].customer)
                    >= get_max_active_bookings(res[o].customer)
       THEN /\ mgr_reservations' = mgr_reservations
            /\ last' = Call("ReservationManager.create_reservation", o, res[o].reservation_id,
                            "ValueError: Customer has reached maximum active bookings")
       ELSE /\ mgr_reservations' = [mgr_reservations EXCEPT ![res[o].reservation_id] = o]
            /\ last' = Call("ReservationManager.create_reservation", o, res[o].reservation_id,
                            "True")
    /\ UNCHANGED <<res, branch_reservations, tables, now, total_spend, payvars, catvars, pc>>

\* ReservationManager.create_reservation run by a thread: nothing in the
\* method holds a lock, so another thread may run between the overlap check,
\* the quota check and the store.
\* if self._has_conflict(reservation): raise
create_reservation_has_conflict(th, o) ==
    /\ pc[th] = Idle
    /\ \A other \in Threads : pc[other].o # o
    /\ IF has_conflict(o)
       THEN /\ pc' = pc
            /\ last' = Call("ReservationManager.create_reservation", o, res[o].reservation_id,
                            "ValueError: Reservation conflicts with existing booking")
       ELSE /\ pc' = [pc EXCEPT ![th] = [at |-> "quota", o |-> o]]
            /\ last' = Call("_has_conflict", o, res[o].reservation_id, "False")
    /\ UNCHANGED <<res, mgr_reservations, branch_reservations, tables, now, total_spend,
                   payvars, catvars>>

\* if active_count >= max_allowed: raise
create_reservation_quota(th) ==
    /\ pc[th].at = "quota"
    /\ LET o == pc[th].o
       IN  IF /\ has_get_max_active_bookings(res[o].customer)
              /\ count_active_reservations(res[o].customer)
                    >= get_max_active_bookings(res[o].customer)
           THEN /\ pc' = [pc EXCEPT ![th] = Idle]
                /\ last' = Call("ReservationManager.create_reservation", o,
                                res[o].reservation_id,
                                "ValueError: Customer has reached maximum active bookings")
           ELSE /\ pc' = [pc EXCEPT ![th] = [at |-> "store", o |-> o]]
                /\ last' = Call("_count_active_reservations", o, res[o].reservation_id, "None")
    /\ UNCHANGED <<res, mgr_reservations, branch_reservations, tables, now, total_spend,
                   payvars, catvars>>

\* self._reservations[reservation.reservation_id] = reservation; return True
create_reservation_store(th) ==
    /\ pc[th].at = "store"
    /\ LET o == pc[th].o
       IN  /\ mgr_reservations' = [mgr_reservations EXCEPT ![res[o].reservation_id] = o]
           /\ last' = Call("ReservationManager.create_reservation", o, res[o].reservation_id,
                           "True")
    /\ pc' = [pc EXCEPT ![th] = Idle]
    /\ UNCHANGED <<res, branch_reservations, tables, now, total_spend, payvars, catvars>>

ReservationManager_confirm_reservation(id) ==
    /\ LET o == mgr_reservations[id]
       IN  IF o # 0
           THEN /\ res' = confirm_booking_res(o)
                /\ last' = Call("ReservationManager.confirm_reservation", o, id,
                                confirm_booking_out(o))
           ELSE /\ res' = res
                /\ last' = Call("ReservationManager.confirm_reservation", 0, id, "False")
    /\ UNCHANGED <<mgr_reservations, branch_reservations, tables, now, total_spend, payvars, catvars, pc>>

ReservationManager_cancel_reservation(id, reason) ==
    /\ LET o == mgr_reservations[id]
       IN  IF o # 0
           THEN /\ res' = cancel_booking_res(o, reason)
                /\ last' = [Call("ReservationManager.cancel_reservation", o, id,
                                 cancel_booking_out(o)) EXCEPT !.reason = reason]
           ELSE /\ res' = res
                /\ last' = [Call("ReservationManager.cancel_reservation", 0, id, "False")
                            EXCEPT !.reason = reason]
    /\ UNCHANGED <<mgr_reservations, branch_reservations, tables, now, total_spend, payvars, catvars, pc>>

\* Reservation.get_date: the day of the start, as strftime("%Y-%m-%d") gives it
get_date(o) == res[o].start_datetime \div 1440

\* ReservationManager.get_reservations_for_date
get_reservations_for_date(date) == {o \in MgrStored : get_date(o) = date}

\* BoardGameCafeBranch.check_availability (BGC_person.py): the answer
check_availability(table_id, date) ==
    ~\E o \in get_reservations_for_date(date) :
        /\ res[o].table = table_id
        /\ res[o].status \in {"Confirmed", "Checked In"}

\* BoardGameCafeBranch.check_availability, as a call
BoardGameCafeBranch_check_availability(table_id, date) ==
    /\ last' = [Call("check_availability", 0, 0,
                     IF check_availability(table_id, date) THEN "True" ELSE "False")
                EXCEPT !.table = table_id, !.start = date]
    /\ UNCHANGED <<res, mgr_reservations, branch_reservations, tables, now, total_spend,
                   payvars, catvars, pc>>

\* ------------------------------------------------------------------------
\* BoardGameCafe (BGC.py): the list branch.reservations
\* ------------------------------------------------------------------------
BranchStored == {branch_reservations[i] : i \in DOMAIN branch_reservations}

BoardGameCafe_create_reservation(o) ==
    /\ IF \E i \in DOMAIN branch_reservations :
             /\ res[branch_reservations[i]].table = res[o].table
             /\ overlaps(o, branch_reservations[i])
       THEN /\ branch_reservations' = branch_reservations
            /\ last' = Call("BoardGameCafe.create_reservation", o, res[o].reservation_id,
                            "ValueError: Reservation conflict - table already booked")
       ELSE /\ branch_reservations' = Append(branch_reservations, o)
            /\ last' = Call("BoardGameCafe.create_reservation", o, res[o].reservation_id,
                            "None")
    /\ UNCHANGED <<res, mgr_reservations, tables, now, total_spend, payvars, catvars, pc>>

\* ReservationManager.get_reservation: self._reservations.get(id), 0 for None
ReservationManager_get_reservation(id) == mgr_reservations[id]

\* BoardGameCafe.get_reservation: the first reservation of the list with that id
get_reservation(id) ==
    LET hits == {i \in DOMAIN branch_reservations :
                    res[branch_reservations[i]].reservation_id = id}
    IN  IF hits = {} THEN 0
        ELSE branch_reservations[CHOOSE i \in hits : \A j \in hits : i <= j]

BoardGameCafe_confirm_reservation(id) ==
    /\ LET o == get_reservation(id)
       IN  IF o # 0
           THEN /\ res' = confirm_booking_res(o)
                /\ last' = Call("BoardGameCafe.confirm_reservation", o, id,
                                confirm_booking_out(o))
           ELSE /\ res' = res
                /\ last' = Call("BoardGameCafe.confirm_reservation", 0, id, "False")
    /\ UNCHANGED <<mgr_reservations, branch_reservations, tables, now, total_spend, payvars, catvars, pc>>

BoardGameCafe_cancel_reservation(id, reason) ==
    /\ LET o == get_reservation(id)
       IN  IF o # 0
           THEN /\ res' = cancel_booking_res(o, reason)
                /\ last' = [Call("BoardGameCafe.cancel_reservation", o, id,
                                 cancel_booking_out(o)) EXCEPT !.reason = reason]
           ELSE /\ res' = res
                /\ last' = [Call("BoardGameCafe.cancel_reservation", 0, id, "False")
                            EXCEPT !.reason = reason]
    /\ UNCHANGED <<mgr_reservations, branch_reservations, tables, now, total_spend, payvars, catvars, pc>>

\* ------------------------------------------------------------------------
\* Menu items and orders (BGC_menu.py)
\* ------------------------------------------------------------------------
\* three items of the menu: A at 100.00, B at 50.00, and X, which is out of
\* stock
MenuItems == {"A", "B", "X"}
price == [i \in MenuItems |-> menu[i].price]
is_available_mut == [i \in MenuItems |-> menu[i].is_available]

\* MenuItem.is_available: the flag is set and the stock is positive
is_available == [i \in MenuItems |-> menu[i].is_available /\ menu[i].stock_level > 0]

\* what a call on a MenuItem leaves: the call changes `menu` alone
MenuCall(op, item, amount, out, new_item) ==
    /\ menu' = [menu EXCEPT ![item] = new_item]
    /\ last' = [Call(op, 0, 0, out) EXCEPT !.method = item, !.amount = amount]
    /\ UNCHANGED <<resvars, tables, payvars, games>>

set_price(item, new_price) ==
    IF new_price < 0
    THEN MenuCall("set_price", item, new_price, "ValueError: Price cannot be negative",
                  menu[item])
    ELSE MenuCall("set_price", item, new_price, "None", [menu[item] EXCEPT !.price = new_price])

set_stock_level(item, quantity) ==
    IF quantity < 0
    THEN MenuCall("set_stock_level", item, quantity,
                  "ValueError: Stock level cannot be negative", menu[item])
    ELSE MenuCall("set_stock_level", item, quantity, "None",
                  [menu[item] EXCEPT !.stock_level = quantity])

mark_unavailable(item) ==
    MenuCall("mark_unavailable", item, 0, "None", [menu[item] EXCEPT !.is_available = FALSE])

MenuItem_mark_available(item) ==
    MenuCall("MenuItem.mark_available", item, 0, "None",
             [menu[item] EXCEPT !.is_available = TRUE])

Quantities == 0..2
Discounts == {-100, 0, 2500, 20000}
NoOne == "-"
NoTable == "-"

OrderObjs == 1..Len(orders)

\* Order.__init__
Order(c, t) ==
    /\ orders' = Append(orders,
            [customer |-> c, table |-> t, status |-> "Open", items |-> <<>>,
             discount_amount |-> 0])
    /\ last' = [Call("Order", 0, 0, "ok") EXCEPT !.order = Len(orders) + 1, !.table = t]
    /\ UNCHANGED <<resvars, tables, payments, mgr_payments, payment_counter, branch_payments, catvars>>

RECURSIVE SumLines_mut(_)
SumLines_mut(items) ==
    IF items = <<>> THEN 0
    ELSE (IF Head(items).status # "Cancelled"
          THEN menu[Head(items).item_id].price * Head(items).quantity
          ELSE 0) + SumLines_mut(Tail(items))

RECURSIVE SumLines(_)
SumLines(items) ==
    IF items = <<>> THEN 0
    ELSE (IF Head(items).status # "Cancelled"
          THEN Head(items).price * Head(items).quantity
          ELSE 0) + SumLines(Tail(items))

calculate_subtotal(o) == SumLines(orders[o].items)

calculate_tax_mut(o) ==
    (calculate_subtotal(o) * DEFAULT_TAX_RATE_PERCENT) \div 100

\* (subtotal - discount) * 0.07, in hundredths
calculate_tax(o) ==
    ((calculate_subtotal(o) - orders[o].discount_amount) * DEFAULT_TAX_RATE_PERCENT) \div 100

calculate_total(o) ==
    calculate_subtotal(o) - orders[o].discount_amount + calculate_tax(o)

\* what an order call leaves: the call changes `orders` alone
OrderCall(op, o, item, amount, out, new_orders) ==
    /\ orders' = new_orders
    /\ last' = [Call(op, 0, 0, out) EXCEPT !.order = o, !.method = item, !.amount = amount]
    /\ UNCHANGED <<resvars, tables, payments, mgr_payments, payment_counter, branch_payments, catvars>>

add_item(o, item, quantity) ==
    IF orders[o].status # "Open"
    THEN OrderCall("add_item", o, item, quantity,
                   "ValueError: Cannot add items to a closed order", orders)
    ELSE IF quantity <= 0
    THEN OrderCall("add_item", o, item, quantity,
                   "ValueError: Quantity must be positive", orders)
    ELSE IF ~is_available[item]
    THEN OrderCall("add_item", o, item, quantity,
                   "ValueError: Item is not available", orders)
    ELSE OrderCall("add_item", o, item, quantity, "None",
            [orders EXCEPT ![o].items = Append(@,
                [item_id |-> item, price |-> price[item], quantity |-> quantity,
                 status |-> "Pending"])])

remove_item(o, item) ==
    IF orders[o].status # "Open"
    THEN OrderCall("remove_item", o, item, 0,
                   "ValueError: Cannot remove items from closed order", orders)
    ELSE OrderCall("remove_item", o, item, 0, "None",
            [orders EXCEPT ![o].items = SelectSeq(@, LAMBDA i : i.item_id # item)])

\* Order._find_item: the first line of the order with that item, 0 if none
find_item(o, item) ==
    LET hits == {k \in DOMAIN orders[o].items : orders[o].items[k].item_id = item}
    IN  IF hits = {} THEN 0 ELSE CHOOSE k \in hits : \A j \in hits : k <= j

mark_preparing(o, item) ==
    LET k == find_item(o, item)
    IN  IF k = 0
        THEN OrderCall("mark_preparing", o, item, 0, "ValueError: Item not found in order",
                       orders)
        ELSE IF orders[o].items[k].status # "Pending"
        THEN OrderCall("mark_preparing", o, item, 0, "ValueError: Item not pending", orders)
        ELSE OrderCall("mark_preparing", o, item, 0, "None",
                [orders EXCEPT ![o].items[k].status = "Preparing"])

mark_served(o, item) ==
    LET k == find_item(o, item)
    IN  IF k = 0
        THEN OrderCall("mark_served", o, item, 0, "ValueError: Item not found in order", orders)
        ELSE IF orders[o].items[k].status # "Preparing"
        THEN OrderCall("mark_served", o, item, 0, "ValueError: Item not preparing", orders)
        ELSE OrderCall("mark_served", o, item, 0, "None",
                [orders EXCEPT ![o].items[k].status = "Served"])

cancel_item(o, item) ==
    LET k == find_item(o, item)
    IN  IF k = 0
        THEN OrderCall("cancel_item", o, item, 0, "ValueError: Item not found in order", orders)
        ELSE IF orders[o].items[k].status = "Served"
        THEN OrderCall("cancel_item", o, item, 0, "ValueError: Cannot cancel served item", orders)
        ELSE OrderCall("cancel_item", o, item, 0, "None",
                [orders EXCEPT ![o].items[k].status = "Cancelled"])

apply_discount(o, amount) ==
    IF amount < 0
    THEN OrderCall("apply_discount", o, "-", amount,
                   "ValueError: Discount cannot be negative", orders)
    ELSE IF amount > calculate_subtotal(o)
    THEN OrderCall("apply_discount", o, "-", amount,
                   "ValueError: Discount cannot exceed subtotal", orders)
    ELSE OrderCall("apply_discount", o, "-", amount, "None",
            [orders EXCEPT ![o].discount_amount = amount])

close_order(o) ==
    OrderCall("close_order", o, "-", 0, "None", [orders EXCEPT ![o].status = "Closed"])

cancel_order(o) ==
    OrderCall("cancel_order", o, "-", 0, "None",
        [orders EXCEPT ![o].status = "Cancelled",
                       ![o].items = [k \in DOMAIN @ |-> [@[k] EXCEPT !.status = "Cancelled"]]])

\* mutant: the order is attached whatever the table's status
assign_order_mut(t, o) ==
    /\ tables' = [tables EXCEPT ![t].active_order = o]
    /\ last' = [Call("assign_order", 0, 0, "None") EXCEPT !.table = t, !.order = o]
    /\ UNCHANGED <<resvars, payvars, catvars>>

\* PlayTable.assign_order
assign_order(t, o) ==
    /\ IF tables[t].status # "Occupied"
       THEN /\ tables' = tables
            /\ last' = [Call("assign_order", 0, 0,
                             "ValueError: Table must be occupied to assign an order")
                        EXCEPT !.table = t, !.order = o]
       ELSE /\ tables' = [tables EXCEPT ![t].active_order = o]
            /\ last' = [Call("assign_order", 0, 0, "None") EXCEPT !.table = t, !.order = o]
    /\ UNCHANGED <<resvars, payvars, catvars>>

\* ------------------------------------------------------------------------
\* Payments (BGC_operation.py).  Two unrelated bases: Card extends Payment,
\* which keeps the id, the total and the order and has neither a status nor
\* complete_payment nor refund; Cash and OnlinePayment extend PaymentMethod,
\* whose abstract method __process_transaction is, by name mangling,
\* _PaymentMethod__process_transaction, which neither subclass overrides
\* (both define _process_transaction): the two classes stay abstract and
\* cannot be instantiated.
\* ------------------------------------------------------------------------
PaymentIds == {"", "PAY001"}
CashAmounts == {0, 10000, 20000}
LastFourInputs == { <<"1", "2", "3", "4">>, <<"1", "2", "a", "4">>,
                    <<"1", "2", "3", "4", "5">> }
TransactionRefs == {<<>>, <<"T", "X", "N">>}
RefundReasons == {"", "too short", "Customer was charged twice"}
PaymentMethods == {"cash", "card", "online", "cheque"}

PaymentObjs == 1..Len(payments)

\* str.isdigit()
isdigit(str) ==
    /\ str # <<>>
    /\ \A k \in DOMAIN str : str[k] \in {"0", "1", "2", "3", "4", "5", "6", "7", "8", "9"}

AbstractClassError(cls) ==
    "TypeError: Can't instantiate abstract class " \o cls
        \o " with abstract method _PaymentMethod__process_transaction"

\* what a payment call leaves: the call changes the payment state alone
PaymentCall(op, payment_id, o, p, method, amount, arg, out, new_payments, new_counter, new_branch) ==
    /\ payments' = new_payments
    /\ payment_counter' = new_counter
    /\ branch_payments' = new_branch
    /\ last' = [Call(op, 0, 0, out) EXCEPT
                    !.order = o, !.p = p, !.method = method,
                    !.amount = amount, !.arg = arg, !.payment_id = payment_id]
    /\ UNCHANGED <<resvars, tables, orders, mgr_payments, catvars>>

\* Cash.__init__ is never entered: the class is abstract
Cash(payment_id, o, amount_received) ==
    PaymentCall("Cash", payment_id, o, 0, "cash", amount_received, <<>>, AbstractClassError("Cash"),
                payments, payment_counter, branch_payments)

\* OnlinePayment.__init__ is never entered: the class is abstract
OnlinePayment(payment_id, o, transaction_ref) ==
    PaymentCall("OnlinePayment", payment_id, o, 0, "online", 0, transaction_ref,
                AbstractClassError("OnlinePayment"),
                payments, payment_counter, branch_payments)

\* Card.__init__, then Payment.__init__
Card_error(payment_id, last_four_digits) ==
    IF Len(last_four_digits) # 4 \/ ~isdigit(last_four_digits)
    THEN "ValueError: Last four digits must be exactly 4 digits"
    ELSE IF payment_id = ""
    THEN "ValueError: Payment ID cannot be empty"
    ELSE "ok"

Card(payment_id, o, last_four_digits) ==
    LET err == Card_error(payment_id, last_four_digits)
    IN  IF err # "ok"
        THEN PaymentCall("Card", payment_id, o, 0, "card", 0, last_four_digits, err,
                         payments, payment_counter, branch_payments)
        ELSE PaymentCall("Card", payment_id, o, Len(payments) + 1, "card", 0, last_four_digits, "ok",
                         Append(payments,
                            [cls |-> "Card", payment_id |-> payment_id, order |-> o,
                             total_amount |-> calculate_total(o),
                             payment_method |-> "Card",
                             last_four_digits |-> last_four_digits]),
                         payment_counter, branch_payments)

\* complete_payment is a method of PaymentMethod: a Card has none
complete_payment_out(p) ==
    "AttributeError: '" \o payments[p].cls \o "' object has no attribute 'complete_payment'"

complete_payment(p) ==
    PaymentCall("complete_payment", payments[p].payment_id, payments[p].order, p, "-", 0, <<>>,
                complete_payment_out(p),
                payments, payment_counter, branch_payments)

\* refund is a method of PaymentMethod: a Card has none
refund(p, reason) ==
    PaymentCall("refund", payments[p].payment_id, payments[p].order, p, "-", Len(reason), <<>>,
                "AttributeError: '" \o payments[p].cls \o "' object has no attribute 'refund'",
                payments, payment_counter, branch_payments)

\* Payment.process_payment calls order.set_payment_status, which Order lacks
Payment_process_payment(p) ==
    PaymentCall("Payment.process_payment", payments[p].payment_id,
                payments[p].order, p, "-", 0, <<>>,
                "AttributeError: 'Order' object has no attribute 'set_payment_status'",
                payments, payment_counter, branch_payments)

\* PaymentManager.process_payment: the counter moves, the payment is
\* constructed, and complete_payment raises before the payment is stored
PaymentManager_process_payment(o, payment_method, amount_received, last_four_digits) ==
    LET out ==
            IF payment_method = "cash" THEN AbstractClassError("Cash")
            ELSE IF payment_method = "online" THEN AbstractClassError("OnlinePayment")
            ELSE IF payment_method = "card"
            THEN IF Card_error("PAY-n", last_four_digits) # "ok"
                 THEN Card_error("PAY-n", last_four_digits)
                 ELSE "AttributeError: 'Card' object has no attribute 'complete_payment'"
            ELSE "ValueError: Unknown payment method"
    IN  PaymentCall("PaymentManager.process_payment", "PAY-n", o, 0, payment_method,
                    amount_received, last_four_digits, out, payments, payment_counter + 1, branch_payments)

\* BoardGameCafe.process_payment (BGC.py): the payment joins branch.payments,
\* then complete_payment raises
BoardGameCafe_process_payment(p) ==
    PaymentCall("BoardGameCafe.process_payment", payments[p].payment_id,
                payments[p].order, p, "-", 0, <<>>,
                complete_payment_out(p),
                payments, payment_counter, Append(branch_payments, p))

\* ------------------------------------------------------------------------
\* The clock
\* ------------------------------------------------------------------------
Tick(t) ==
    /\ t > now
    /\ now' = t
    /\ last' = Call("tick", 0, 0, "None")
    /\ UNCHANGED <<res, mgr_reservations, branch_reservations, tables, total_spend, payvars, catvars, pc>>

\* ------------------------------------------------------------------------
\* Specification
\* ------------------------------------------------------------------------
Init ==
    /\ res = <<>>
    /\ mgr_reservations = [i \in ReservationIds |-> 0]
    /\ branch_reservations = <<>>
    /\ tables = [t \in Tables |->
            [status |-> "Available", current_customers |-> <<>>, board_games |-> <<>>,
             active_order |-> 0, occupied_since |-> None]]
    /\ now = 0
    /\ total_spend = [c \in Members |-> IF c = "m1" THEN 0 ELSE 2000]
    /\ last = Call("init", 0, 0, "None")
    /\ orders = <<>>
    /\ payments = <<>>
    /\ mgr_payments = {}
    /\ payment_counter = 0
    /\ branch_payments = <<>>
    /\ menu = [i \in MenuItems |->
            [price |-> IF i = "A" THEN 10000 ELSE 5000,
             stock_level |-> IF i = "X" THEN 0 ELSE 100,
             is_available |-> TRUE]]
    /\ games = [g \in Games |->
            [status |-> "Available", current_table |-> NoTableLink, times_played |-> 0]]
    /\ pc = [th \in Threads |-> Idle]

\* a fresh reservation id, or one an earlier object already carries
IdChoices == 1..(Len(res) + 1)

\* The lifecycle methods, called on the object or through either store.  BGC.py
\* and BGC_person.py are two implementations of the system: a run stores its
\* reservations in one of them.
Lifecycle(reasons) ==
    \/ \E o \in Objs :
            branch_reservations = <<>> /\ ReservationManager_create_reservation(o)
    \/ \E o \in Objs :
            MgrStored = {} /\ BoardGameCafe_create_reservation(o)
    \/ \E id \in IdChoices : ReservationManager_confirm_reservation(id)
    \/ \E id \in IdChoices : BoardGameCafe_confirm_reservation(id)
    \/ \E id \in IdChoices, r \in reasons : ReservationManager_cancel_reservation(id, r)
    \/ \E id \in IdChoices, r \in reasons : BoardGameCafe_cancel_reservation(id, r)
    \/ \E o \in Objs : confirm_booking(o)
    \/ \E o \in Objs, r \in reasons : cancel_booking(o, r)
    \/ \E o \in Objs : check_in(o)
    \/ \E o \in Objs : complete(o)
    \/ \E o \in Objs : mark_no_show(o)

\* Spec: booking.  Requests that pass the constructor's validation, by one
\* Silver member, on both tables, over the three one- and two-hour intervals;
\* the clock stands at its first instant.
Next ==
    \/ /\ Len(res) < MaxRes
       /\ \E id \in IdChoices, t \in Tables, s \in StartTimes, e \in StartTimes :
            Reservation(id, "m2", t, s, e, 1)
    \/ Lifecycle({""})
    \/ \E t \in Tables : clear_table(t)

Spec == Init /\ [][Next]_vars

\* SpecLife: one reservation, walk-ins and maintenance on the tables, and the
\* clock running through the grace period.
NextLife ==
    \/ /\ Len(res) < MaxLifeRes
       /\ \E c \in Members, t \in Tables, s \in StartTimes, e \in StartTimes :
            Reservation(1, c, t, s, e, 1)
    \/ Lifecycle(Reasons)
    \/ \E t \in Tables : assign_customer(t, WalkIn)
    \/ \E t \in Tables : clear_table(t)
    \/ \E t \in Tables : set_maintenance(t)
    \/ \E t \in Instants : Tick(t)

SpecLife == Init /\ [][NextLife]_vars

\* SpecCtor: the constructor over every guest count and time string, valid or
\* not, and the methods of the object.
NextCtor ==
    \/ /\ Len(res) < MaxCtorRes
       /\ \E t \in Tables, s \in TimeStrs, e \in TimeStrs, g \in GuestCounts :
            Reservation(1, "m2", t, s, e, g)
    \/ \E o \in Objs : confirm_booking(o)
    \/ \E o \in Objs, r \in Reasons : cancel_booking(o, r)
    \/ \E o \in Objs : check_in(o)
    \/ \E o \in Objs : complete(o)
    \/ \E o \in Objs : mark_no_show(o)

SpecCtor == Init /\ [][NextCtor]_vars

\* SpecOrder: one order of a member, its lines, discount, close and cancel,
\* and a Card payment created against it at any point.
NextOrder ==
    \/ /\ Len(orders) < MaxOrders
       /\ Order("m2", NoTable)
    \/ \E o \in OrderObjs, item \in MenuItems, quantity \in Quantities :
            Len(orders[o].items) < MaxLines /\ add_item(o, item, quantity)
    \/ \E o \in OrderObjs, item \in MenuItems : remove_item(o, item)
    \/ \E o \in OrderObjs, item \in MenuItems : cancel_item(o, item)
    \/ \E o \in OrderObjs, amount \in Discounts : apply_discount(o, amount)
    \/ \E o \in OrderObjs : close_order(o)
    \/ \E o \in OrderObjs : cancel_order(o)
    \/ /\ Len(payments) < MaxOrderPayments
       /\ \E o \in OrderObjs : Card("PAY001", o, <<"1", "2", "3", "4">>)

SpecOrder == Init /\ [][NextOrder]_vars

\* SpecPay: an order of item A, with or without a member and a table, and
\* every way of paying it: the three constructors, the methods of the payment
\* object and the two process_payment entry points.
NextPay ==
    \/ /\ Len(orders) < MaxOrders
       /\ \E c \in {NoOne, "m2"}, t \in {NoTable, "T001"} : Order(c, t)
    \/ \E o \in OrderObjs, quantity \in Quantities :
            Len(orders[o].items) < MaxPayLines /\ add_item(o, "A", quantity)
    \/ \E o \in OrderObjs, id \in PaymentIds, a \in CashAmounts : Cash(id, o, a)
    \/ \E o \in OrderObjs, id \in PaymentIds, ref \in TransactionRefs : OnlinePayment(id, o, ref)
    \/ /\ Len(payments) < MaxPayments
       /\ \E o \in OrderObjs, id \in PaymentIds, d \in LastFourInputs : Card(id, o, d)
    \/ \E p \in PaymentObjs : complete_payment(p)
    \/ \E p \in PaymentObjs, reason \in RefundReasons : refund(p, reason)
    \/ \E p \in PaymentObjs : Payment_process_payment(p)
    \/ /\ payment_counter < MaxPaymentCounter
       /\ \E o \in OrderObjs, m \in PaymentMethods, a \in CashAmounts, d \in LastFourInputs :
            PaymentManager_process_payment(o, m, a, d)
    \/ /\ Len(branch_payments) < MaxBranchPayments
       /\ \E p \in PaymentObjs : BoardGameCafe_process_payment(p)
    \/ assign_customer("T001", "m2")
    \/ \E o \in OrderObjs : assign_order("T001", o)
    \/ clear_table("T001")

SpecPay == Init /\ [][NextPay]_vars

\* SpecLines: one order, its lines through preparation and service, its
\* discount, close and cancel, while item A of the menu changes price, stock
\* and availability.
NewPrices == {-100, 10000, 12000}
StockLevels == {-1, 0, 100}

NextLines ==
    \/ /\ Len(orders) < MaxOrders
       /\ Order("m2", NoTable)
    \/ \E o \in OrderObjs, item \in MenuItems, quantity \in Quantities :
            Len(orders[o].items) < MaxLineItems /\ add_item(o, item, quantity)
    \/ \E o \in OrderObjs, item \in MenuItems : remove_item(o, item)
    \/ \E o \in OrderObjs, item \in MenuItems : mark_preparing(o, item)
    \/ \E o \in OrderObjs, item \in MenuItems : mark_served(o, item)
    \/ \E o \in OrderObjs, item \in MenuItems : cancel_item(o, item)
    \/ \E o \in OrderObjs, amount \in Discounts : apply_discount(o, amount)
    \/ \E o \in OrderObjs : close_order(o)
    \/ \E o \in OrderObjs : cancel_order(o)
    \/ \E new_price \in NewPrices : set_price("A", new_price)
    \/ \E quantity \in StockLevels : set_stock_level("A", quantity)
    \/ mark_unavailable("A")
    \/ MenuItem_mark_available("A")

SpecLines == Init /\ [][NextLines]_vars

\* SpecTable: walk-ins, an order, maintenance and clearing on both tables,
\* two board games moved between them, and the methods of the games called
\* directly; the clock stands at its first instant.
NextTable ==
    \/ /\ Len(orders) < MaxTableOrders
       /\ Order(NoOne, "T001")
    \/ \E t \in Tables : assign_customer(t, WalkIn)
    \/ \E o \in OrderObjs : assign_order("T001", o)
    \/ \E t \in Tables : clear_table(t)
    \/ \E t \in Tables : set_maintenance(t)
    \/ \E t \in Tables, g \in Games :
            games[g].times_played < MaxTablePlays /\ add_board_game(t, g)
    \/ \E t \in Tables, g \in Games : remove_board_game(t, g)
    \/ \E g \in Games : games[g].times_played < MaxTablePlays /\ mark_in_use(g, "T001")
    \/ \E g \in Games : BoardGame_mark_available(g)
    \/ \E g \in Games, status \in {"Available", "Retired"} : set_status(g, status)
    \/ \E g \in Games, notes \in ConditionNotes : update_condition(g, notes)

SpecTable == Init /\ [][NextTable]_vars

\* SpecGame: two board games put on the tables and taken off, and every
\* method of a game called directly, from each of its statuses.
NextGame ==
    \/ \E t \in Tables, g \in Games :
            games[g].times_played < MaxPlays /\ add_board_game(t, g)
    \/ \E t \in Tables, g \in Games : remove_board_game(t, g)
    \/ \E t \in Tables : clear_table(t)
    \/ \E t \in Tables, g \in Games :
            games[g].times_played < MaxPlays /\ mark_in_use(g, t)
    \/ \E g \in Games : BoardGame_mark_available(g)
    \/ \E g \in Games, status \in GameStatuses : set_status(g, status)
    \/ \E g \in Games, notes \in ConditionNotes : update_condition(g, notes)

SpecGame == Init /\ [][NextGame]_vars

\* SpecConc: two threads calling create_reservation of one manager for the
\* reservations of one member, each thread taking the steps of the method in
\* order and the scheduler choosing which thread steps.
NextConc ==
    \/ /\ Len(res) < MaxConcRes
       /\ \E t \in Tables, s \in StartTimes, e \in StartTimes :
            Reservation(Len(res) + 1, "m2", t, s, e, 1)
    \/ \E th \in Threads, o \in Objs : create_reservation_has_conflict(th, o)
    \/ \E th \in Threads : create_reservation_quota(th)
    \/ \E th \in Threads : create_reservation_store(th)

SpecConc == Init /\ [][NextConc]_vars

\* SpecQuery: two reservations of a Silver member in the manager's store,
\* confirmed and cancelled through it, and the availability of each table
\* asked for the day of the reservations and for the day after.
QueryDates == {ResDay, ResDay + 1}

NextQuery ==
    \/ /\ Len(res) < MaxQueryRes
       /\ \E t \in Tables, s \in StartTimes, e \in StartTimes :
            Reservation(Len(res) + 1, "m2", t, s, e, 1)
    \/ \E o \in Objs : ReservationManager_create_reservation(o)
    \/ \E id \in IdChoices : ReservationManager_confirm_reservation(id)
    \/ \E id \in IdChoices : ReservationManager_cancel_reservation(id, "")
    \/ \E t \in Tables, d \in QueryDates : BoardGameCafeBranch_check_availability(t, d)

SpecQuery == Init /\ [][NextQuery]_vars

\* SpecTier: member m1 starts at any spend around the thresholds, spends
\* more, and has the tier resolved.
Spends == {0, 1999, 2000, 2001, 7499, 7500, 7501, 19999, 20000, 20001}
SpendAmounts == {1, 5500, 12500}

InitTier ==
    /\ res = <<>>
    /\ mgr_reservations = [i \in ReservationIds |-> 0]
    /\ branch_reservations = <<>>
    /\ tables = [t \in Tables |->
            [status |-> "Available", current_customers |-> <<>>, board_games |-> <<>>,
             active_order |-> 0, occupied_since |-> None]]
    /\ now = 0
    /\ \E spend \in Spends : total_spend = [c \in Members |-> IF c = "m1" THEN spend ELSE 2000]
    /\ last = Call("init", 0, 0, "None")
    /\ orders = <<>>
    /\ payments = <<>>
    /\ mgr_payments = {}
    /\ payment_counter = 0
    /\ branch_payments = <<>>
    /\ menu = [i \in MenuItems |->
            [price |-> IF i = "A" THEN 10000 ELSE 5000,
             stock_level |-> IF i = "X" THEN 0 ELSE 100,
             is_available |-> TRUE]]
    /\ games = [g \in Games |->
            [status |-> "Available", current_table |-> NoTableLink, times_played |-> 0]]
    /\ pc = [th \in Threads |-> Idle]

NextTier ==
    \/ \E amount \in SpendAmounts :
            total_spend["m1"] + amount <= MaxSpend /\ increment_spend("m1", amount)
    \/ \E c \in Members : Member_get_tier(c)

SpecTier == InitTier /\ [][NextTier]_vars

\* ========================================================================
\* Properties
\* ========================================================================
CreateOps == {"ReservationManager.create_reservation", "BoardGameCafe.create_reservation"}
CancelOps == {"cancel_booking", "ReservationManager.cancel_reservation",
              "BoardGameCafe.cancel_reservation"}
ConfirmOps == {"confirm_booking", "ReservationManager.confirm_reservation",
               "BoardGameCafe.confirm_reservation"}
ConflictErrors == {"ValueError: Reservation conflicts with existing booking",
                   "ValueError: Reservation conflict - table already booked"}
QuotaErrors == {"ValueError: Customer has reached maximum active bookings"}
Returned == {"True", "None"}
Statuses == {"Pending", "Confirmed", "Checked In", "Completed", "Cancelled", "No Show"}
ActiveStatuses == {"Pending", "Confirmed", "Checked In"}
TerminalStatuses == {"Completed", "Cancelled", "No Show"}

\* the reservations the store behind a create_reservation entry point holds
StoredBy(op) ==
    IF op = "ReservationManager.create_reservation" THEN MgrStored ELSE BranchStored

\* some stored reservation with a status in `statuses`, on the table of o,
\* with newStart < existingEnd and newEnd > existingStart
Blocked(o, op, statuses) ==
    \E x \in StoredBy(op) :
        /\ res[x].status \in statuses
        /\ res[x].table = res[o].table
        /\ res[o].start_datetime < res[x].end_datetime
        /\ res[o].end_datetime > res[x].start_datetime

StoresUnchanged ==
    /\ mgr_reservations' = mgr_reservations
    /\ branch_reservations' = branch_reservations

\* ------------------------------------------------------------------------
\* C1: in either store, two distinct stored reservations on the same table
\* that are both Confirmed or Checked In have disjoint [start, end) intervals.
\* ------------------------------------------------------------------------
NoDoubleBooking(stored) ==
    \A a \in stored : \A b \in stored :
        ( /\ a # b
          /\ res[a].table = res[b].table
          /\ res[a].status \in {"Confirmed", "Checked In"}
          /\ res[b].status \in {"Confirmed", "Checked In"} )
        => ( res[a].end_datetime <= res[b].start_datetime
             \/ res[b].end_datetime <= res[a].start_datetime )

\* C1: confirmed and checked-in reservations of one table never overlap
C1_NoOverlap == NoDoubleBooking(MgrStored) /\ NoDoubleBooking(BranchStored)

\* two reservations of one table stored side by side, one Confirmed and one
\* Checked In, the second starting when the first ends
C1_Witness ==
    \E a \in MgrStored : \E b \in MgrStored :
        /\ a # b
        /\ res[a].table = res[b].table
        /\ res[a].status = "Checked In"
        /\ res[b].status = "Confirmed"
        /\ res[a].end_datetime = res[b].start_datetime

\* ------------------------------------------------------------------------
\* C2 as stated: a request that overlaps a stored reservation of its table
\* whose status is anything but Cancelled is rejected with the conflict error
\* and both stores are left as they were.
\* ------------------------------------------------------------------------
RejectsWhenBlockedBy(statuses) ==
    ( /\ last'.op \in CreateOps
      /\ Blocked(last'.o, last'.op, statuses) )
    => ( /\ last'.out \in ConflictErrors
         /\ StoresUnchanged )

\* C2 as stated: an overlap with any stored reservation that is not Cancelled
\* rejects the request (a request that is not itself in the store)
C2_Original ==
    [][ last'.o \notin StoredBy(last'.op)
            => RejectsWhenBlockedBy(Statuses \ {"Cancelled"}) ]_vars

\* C2 as amended: a request that overlaps a stored reservation of its table
\* whose status is Pending, Confirmed or Checked In is rejected with the
\* conflict error and both stores are left as they were.
C2_RejectsActiveOverlap == [][RejectsWhenBlockedBy(ActiveStatuses)]_vars

\* a create_reservation call just rejected for conflict with an active
\* reservation of the same table
C2_Witness ==
    /\ last.op \in CreateOps
    /\ last.out \in ConflictErrors
    /\ Blocked(last.o, last.op, ActiveStatuses)
    /\ last.o \notin StoredBy(last.op)

\* ------------------------------------------------------------------------
\* C3: create_reservation raises the conflict error only if a stored
\* reservation of the same table that is not Cancelled overlaps the request;
\* a request no such reservation overlaps is stored (when the quota passes).
\* ------------------------------------------------------------------------
QuotaPasses(o) ==
    \/ last'.op # "ReservationManager.create_reservation"
    \/ count_active_reservations(res[o].customer)
            < max_bookings(get_tier(total_spend[res[o].customer]))

\* C3: the conflict error is raised only for an overlap with a reservation that
\* is not Cancelled, and a request without such an overlap is stored
C3_ConflictOnlyIfOverlap ==
    [][ (last'.op \in CreateOps /\ last'.o \notin StoredBy(last'.op)) =>
          /\ last'.out \in ConflictErrors
                => Blocked(last'.o, last'.op, Statuses \ {"Cancelled"})
          /\ ( ~Blocked(last'.o, last'.op, Statuses \ {"Cancelled"})
               /\ QuotaPasses(last'.o) )
                => ( last'.out \in Returned
                     /\ IF last'.op = "ReservationManager.create_reservation"
                        THEN mgr_reservations'[last'.id] = last'.o
                        ELSE branch_reservations' = Append(branch_reservations, last'.o) )
      ]_vars

\* ------------------------------------------------------------------------
\* C4: through either entry point, a member whose stored Pending, Confirmed
\* or Checked In reservations already number the quota of their tier (or
\* more) is rejected and nothing is stored.
\* ------------------------------------------------------------------------
ActiveCount(stored, c) ==
    Cardinality({x \in stored : res[x].customer = c /\ res[x].status \in ActiveStatuses})

\* C4: a member at or over the quota of their tier is rejected by either entry point
C4_QuotaEnforced ==
    [][ ( /\ last'.op \in CreateOps
          /\ res[last'.o].customer \in Members
          /\ ActiveCount(StoredBy(last'.op), res[last'.o].customer)
                >= max_bookings(get_tier(total_spend[res[last'.o].customer])) )
        => ( /\ last'.out \notin Returned
             /\ StoresUnchanged )
      ]_vars

\* ------------------------------------------------------------------------
\* C5: create_reservation rejects, storing nothing, a request longer than
\* the member's tier allows or starting more days ahead of now than the
\* tier's advance window.
\* ------------------------------------------------------------------------
DurationMinutes(o) == res[o].end_datetime - res[o].start_datetime
AdvanceDays(o) == (res[o].start_datetime - now) \div 1440
TierOf(o) == get_tier(total_spend[res[o].customer])

\* C5: a request over the tier duration or advance window is rejected, nothing stored
C5_LimitsEnforced ==
    [][ ( /\ last'.op \in CreateOps
          /\ \/ DurationMinutes(last'.o) > 60 * max_duration_hours(TierOf(last'.o))
             \/ AdvanceDays(last'.o) > max_advance_days(TierOf(last'.o)) )
        => ( /\ last'.out \notin Returned
             /\ StoresUnchanged )
      ]_vars

\* ------------------------------------------------------------------------
\* C6: a constructor call with guest count > capacity, guest count < 1 or
\* end <= start raises ValueError and creates no object, and every
\* Reservation object that exists has 1 <= guest count <= capacity and
\* end > start.
\* ------------------------------------------------------------------------
ValueErrors(out) == out \notin {"ok", "True", "False", "None"}

AllReservationsValid ==
    \A o \in Objs :
        /\ res[o].guest_count >= 1
        /\ res[o].guest_count <= capacity[res[o].table]
        /\ res[o].end_datetime > res[o].start_datetime

ConstructorRejects ==
    ( /\ last'.op = "Reservation"
      /\ \/ last'.guest_count > capacity[last'.table]
         \/ last'.guest_count < 1
         \/ (last'.start # BadTime /\ last'.end # BadTime /\ last'.end <= last'.start) )
    => ( /\ ValueErrors(last'.out)
         /\ res' = res )

\* C6: invalid constructor arguments raise and create nothing; whatever exists is valid
C6_Validation == []AllReservationsValid /\ [][ConstructorRejects]_vars

\* the constructor has just refused two guests on the one-seat table, and has
\* refused nothing else about the call
C6_Witness ==
    /\ last.op = "Reservation"
    /\ last.guest_count = capacity[last.table] + 1
    /\ last.start < last.end
    /\ ValueErrors(last.out)
    /\ res = <<>>

\* ------------------------------------------------------------------------
\* C7: a reservation starts Pending; its status changes only along
\* Pending->Confirmed (confirm), Confirmed->Checked In (check_in),
\* Checked In->Completed (complete), Confirmed->No Show, and Pending,
\* Confirmed, Checked In->Cancelled (cancel); a terminal status never
\* changes; a method called in a status that does not permit it fails.
\* ------------------------------------------------------------------------
AllowedTransition(s, t, op) ==
    \/ s = "Pending" /\ t = "Confirmed" /\ op \in ConfirmOps
    \/ s = "Confirmed" /\ t = "Checked In" /\ op = "check_in"
    \/ s = "Checked In" /\ t = "Completed" /\ op = "complete"
    \/ s = "Confirmed" /\ t = "No Show" /\ op \in {"check_in", "mark_no_show"}
    \/ s \in ActiveStatuses /\ t = "Cancelled" /\ op \in CancelOps

Permits(op, s) ==
    \/ op \in ConfirmOps /\ s = "Pending"
    \/ op \in {"check_in", "mark_no_show"} /\ s = "Confirmed"
    \/ op = "complete" /\ s = "Checked In"
    \/ op \in CancelOps /\ s \in ActiveStatuses

LifecycleOps == ConfirmOps \cup CancelOps \cup {"check_in", "complete", "mark_no_show"}

\* C7: the status moves only along the edges of the state machine, terminal
\* statuses are final, and a method the status does not permit fails
C7_StateMachine ==
    [][ /\ \A o \in (1..Len(res')) \ Objs : res'[o].status = "Pending"
        /\ \A o \in Objs :
            /\ res'[o].status # res[o].status
                => AllowedTransition(res[o].status, res'[o].status, last'.op)
            /\ res[o].status \in TerminalStatuses => res'[o].status = res[o].status
            /\ ( last'.op \in LifecycleOps /\ last'.o = o /\ ~Permits(last'.op, res[o].status) )
                => ( ValueErrors(last'.out) /\ res'[o].status = res[o].status )
      ]_vars

\* ------------------------------------------------------------------------
\* C8: cancelling a reservation that is already Cancelled reports failure
\* and leaves the recorded cancellation reason as it was.
\* ------------------------------------------------------------------------
\* C8: a second cancel reports failure and keeps the first cancellation reason
C8_CancelTwice ==
    [][ ( /\ last'.op \in CancelOps
          /\ last'.o # 0
          /\ res[last'.o].status = "Cancelled" )
        => ( /\ last'.out # "True"
             /\ res'[last'.o].cancellation_reason = res[last'.o].cancellation_reason )
      ]_vars

\* ------------------------------------------------------------------------
\* C9 as stated: check_in from Confirmed after start + 15 minutes leaves
\* No Show and fails; from Confirmed at or before start + 15 minutes it
\* succeeds and leaves Checked In; from any other status it fails and changes
\* nothing.
\* ------------------------------------------------------------------------
GraceDeadline(o) == res[o].start_datetime + 15

CheckInLate(o) ==
    ( res[o].status = "Confirmed" /\ now > GraceDeadline(o) )
    => ( res'[o].status = "No Show" /\ ValueErrors(last'.out) )

CheckInRefused(o) ==
    res[o].status # "Confirmed"
    => ( ValueErrors(last'.out) /\ res' = res /\ tables' = tables )

\* C9 as stated: a check-in from Confirmed within the grace period always succeeds
C9_Original ==
    [][ last'.op = "check_in" =>
          /\ CheckInLate(last'.o)
          /\ CheckInRefused(last'.o)
          /\ ( res[last'.o].status = "Confirmed" /\ now <= GraceDeadline(last'.o) )
                => ( last'.out = "True" /\ res'[last'.o].status = "Checked In" )
      ]_vars

\* C9 as amended: as stated, but the call in time succeeds, leaving Checked In
\* and the table Occupied with the customer seated, when the table is
\* Available.
C9_CheckIn ==
    [][ last'.op = "check_in" =>
          /\ CheckInLate(last'.o)
          /\ CheckInRefused(last'.o)
          /\ ( /\ res[last'.o].status = "Confirmed"
               /\ now <= GraceDeadline(last'.o)
               /\ tables[res[last'.o].table].status = "Available" )
                => ( /\ last'.out = "True"
                     /\ res'[last'.o].status = "Checked In"
                     /\ tables'[res[last'.o].table].status = "Occupied"
                     /\ tables'[res[last'.o].table].current_customers
                            = <<res[last'.o].customer>> )
      ]_vars

\* a check-in at exactly start + 15 minutes has succeeded
C9_Witness ==
    /\ last.op = "check_in"
    /\ last.out = "True"
    /\ now = GraceDeadline(last.o)
    /\ res[last.o].status = "Checked In"

\* ------------------------------------------------------------------------
\* C10: a reservation becomes Checked In only together with its table
\* becoming Occupied by its customer; a check_in whose table assignment fails
\* leaves the reservation Confirmed.
\* ------------------------------------------------------------------------
\* C10: Checked In is entered only with the table becoming Occupied by the
\* customer; a failed table assignment leaves the reservation Confirmed
C10_AtomicCheckIn ==
    [][ \A o \in Objs :
          /\ ( res[o].status # "Checked In" /\ res'[o].status = "Checked In" )
                => ( /\ tables[res[o].table].status # "Occupied"
                     /\ tables'[res[o].table].status = "Occupied"
                     /\ tables'[res[o].table].current_customers = <<res[o].customer>> )
          /\ ( /\ last'.op = "check_in" /\ last'.o = o
               /\ res[o].status = "Confirmed"
               /\ now <= GraceDeadline(o)
               /\ ValueErrors(last'.out) )
                => res'[o].status = "Confirmed"
      ]_vars

\* ------------------------------------------------------------------------
\* C11: a cancellation less than 2 hours before the start records, inside
\* the cancellation reason, a penalty of half the table's one-hour charge; a
\* cancellation 2 hours or more before the start records the reason alone.
\* ------------------------------------------------------------------------
CancellationPenalty(o) == calculate_table_charge(res[o].table, 1) \div 2

PenaltyNote(reason, amount) == reason \o " [penalty " \o ToString(amount) \o "]"

\* C11: a late cancellation records the penalty in the reason, an early one does not
C11_PenaltyRecorded ==
    [][ ( /\ last'.op \in CancelOps
          /\ last'.o # 0
          /\ last'.out = "True"
          /\ res[last'.o].status \in ActiveStatuses )
        => IF res[last'.o].start_datetime - now < 120
           THEN res'[last'.o].cancellation_reason
                    = PenaltyNote(last'.reason, CancellationPenalty(last'.o))
           ELSE res'[last'.o].cancellation_reason = last'.reason
      ]_vars

\* ------------------------------------------------------------------------
\* Payments: the status a payment object carries, "none" when it has no
\* status attribute
\* ------------------------------------------------------------------------
status_of(pay) == IF "status" \in DOMAIN pay THEN pay.status ELSE "none"

PaymentsOf(o) == {p \in PaymentObjs : payments[p].order = o}

TableFreed(t) ==
    /\ tables'[t].status = "Available"
    /\ tables'[t].current_customers = <<>>
    /\ tables'[t].board_games = <<>>
    /\ tables'[t].active_order = 0
    /\ tables'[t].occupied_since = None

\* C13: paying an open order in cash, with at least the order total received,
\* succeeds: a payment of the order is Completed, the order is Closed and
\* its table, if it has one, is Available and empty
C13_CashCompletes ==
    [][ ( /\ last'.op = "PaymentManager.process_payment"
          /\ last'.method = "cash"
          /\ orders[last'.order].status = "Open"
          /\ calculate_total(last'.order) > 0
          /\ last'.amount >= calculate_total(last'.order) )
        => ( /\ ~ValueErrors(last'.out)
             /\ \E p \in 1..Len(payments') :
                    /\ payments'[p].order = last'.order
                    /\ status_of(payments'[p]) = "Completed"
             /\ orders'[last'.order].status = "Closed"
             /\ orders[last'.order].table # NoTable
                    => TableFreed(orders[last'.order].table) )
      ]_vars

\* C14: paying a member's open order in cash, with at least the order total
\* received, raises the member's lifetime spend by exactly the payment total
\* (total_spend is kept in baht, order totals in hundredths of a baht)
C14_SpendCredited ==
    [][ ( /\ last'.op = "PaymentManager.process_payment"
          /\ last'.method = "cash"
          /\ orders[last'.order].status = "Open"
          /\ orders[last'.order].customer \in Members
          /\ calculate_total(last'.order) > 0
          /\ last'.amount >= calculate_total(last'.order) )
        => LET c == orders[last'.order].customer
           IN  100 * (total_spend'[c] - total_spend[c]) = calculate_total(last'.order)
      ]_vars

\* C16: a completion that fails leaves the payment in status Failed (a
\* payment that was not yet Processing, Completed, Failed or Refunded)
C16_FailedOnError ==
    [][ ( /\ last'.op \in {"complete_payment", "BoardGameCafe.process_payment"}
          /\ status_of(payments[last'.p])
                \notin {"Processing", "Completed", "Failed", "Refunded"}
          /\ ValueErrors(last'.out) )
        => status_of(payments'[last'.p]) = "Failed"
      ]_vars

\* C18: a constructor call with invalid method fields fails and creates
\* nothing; one with valid fields succeeds and the new payment is Pending
ValidFields ==
    /\ last'.op = "Cash" => last'.amount >= calculate_total(last'.order)
    /\ last'.op = "Card" => Len(last'.arg) = 4 /\ isdigit(last'.arg)
    /\ last'.op = "OnlinePayment" => last'.arg # <<>>

C18_ConstructorValidation ==
    [][ ( /\ last'.op \in {"Cash", "Card", "OnlinePayment"}
          /\ last'.payment_id # ""
          /\ calculate_total(last'.order) > 0 ) =>
          IF ValidFields
          THEN ( /\ last'.out = "ok"
                 /\ Len(payments') = Len(payments) + 1
                 /\ status_of(payments'[Len(payments')]) = "Pending" )
          ELSE ( /\ ValueErrors(last'.out)
                 /\ payments' = payments
                 /\ orders' = orders /\ tables' = tables /\ total_spend' = total_spend )
      ]_vars

\* C19: every payment's total is the current total of its order
C19_TotalIsSnapshot ==
    \A p \in PaymentObjs : payments[p].total_amount = calculate_total(payments[p].order)

\* C20: an order starts Open, and its status changes only from Open to Closed
\* (close_order) or from Open to Cancelled (cancel_order)
C20_OrderStateMachine ==
    [][ /\ \A o \in (1..Len(orders')) \ OrderObjs : orders'[o].status = "Open"
        /\ \A o \in OrderObjs :
              orders'[o].status # orders[o].status
                => \/ /\ orders[o].status = "Open"
                      /\ orders'[o].status = "Closed"
                      /\ last'.op = "close_order"
                   \/ /\ orders[o].status = "Open"
                      /\ orders'[o].status = "Cancelled"
                      /\ last'.op = "cancel_order"
      ]_vars

\* ------------------------------------------------------------------------
\* Orders and their lines
\* ------------------------------------------------------------------------
MutatingOps == {"add_item", "remove_item", "apply_discount",
                "mark_preparing", "mark_served", "cancel_item"}

\* C21: on an order with lines that is Closed or Cancelled, add_item,
\* remove_item, apply_discount, mark_preparing, mark_served and cancel_item
\* are rejected and leave the lines, discount, subtotal and total unchanged
C21_MutatedOnlyWhileOpen ==
    [][ \A o \in OrderObjs :
          ( /\ last'.op \in MutatingOps
            /\ last'.order = o
            /\ orders[o].status # "Open"
            /\ orders[o].items # <<>> )
          => ( /\ ValueErrors(last'.out)
               /\ orders'[o].items = orders[o].items
               /\ orders'[o].discount_amount = orders[o].discount_amount
               /\ calculate_subtotal(o)' = calculate_subtotal(o)
               /\ calculate_total(o)' = calculate_total(o) )
      ]_vars

\* C22: add_item is rejected, the lines unchanged, when the order is not
\* Open, the quantity is not positive, or the item's flag is off or its stock
\* is 0; otherwise it appends one Pending line with the given quantity and the
\* item's current price
C22_AddItem ==
    [][ last'.op = "add_item" =>
          LET o == last'.order
              item == last'.method
              quantity == last'.amount
          IN  IF \/ orders[o].status # "Open"
                 \/ quantity <= 0
                 \/ ~menu[item].is_available
                 \/ menu[item].stock_level = 0
              THEN /\ ValueErrors(last'.out)
                   /\ orders'[o].items = orders[o].items
              ELSE /\ last'.out = "None"
                   /\ orders'[o].items = Append(orders[o].items,
                          [item_id |-> item, price |-> menu[item].price,
                           quantity |-> quantity, status |-> "Pending"])
      ]_vars

\* an order that holds one line has item A refused for its stock of 0
C22_Witness ==
    /\ last.op = "add_item"
    /\ last.method = "A"
    /\ last.amount > 0
    /\ ValueErrors(last.out)
    /\ menu["A"].is_available
    /\ menu["A"].stock_level = 0
    /\ orders[last.order].status = "Open"
    /\ Len(orders[last.order].items) = 1

\* C23: in every state 0 <= discount <= subtotal, so the total is never
\* negative
C23_DiscountWithinSubtotal ==
    \A o \in OrderObjs :
        /\ 0 <= orders[o].discount_amount
        /\ orders[o].discount_amount <= calculate_subtotal(o)
        /\ calculate_total(o) >= 0

\* price x quantity over the lines 1..k that are not Cancelled
RECURSIVE LineSum(_, _)
LineSum(items, k) ==
    IF k = 0 THEN 0
    ELSE LineSum(items, k - 1)
         + (IF items[k].status = "Cancelled" THEN 0 ELSE items[k].price * items[k].quantity)

\* C24: the subtotal is the sum of price x quantity over the lines that are
\* not Cancelled, and the total is (subtotal - discount) x 1.07
C24_Totals ==
    \A o \in OrderObjs :
        /\ calculate_subtotal(o) = LineSum(orders[o].items, Len(orders[o].items))
        /\ 100 * calculate_total(o)
              = (calculate_subtotal(o) - orders[o].discount_amount) * 107

\* A (qty 2, price 100.00) and B (qty 1, price 50.00) with a discount of
\* 25.00: the total is 240.75
C24_Witness ==
    \E o \in OrderObjs :
        /\ Len(orders[o].items) = 2
        /\ \E k \in 1..2 : /\ orders[o].items[k].item_id = "A"
                            /\ orders[o].items[k].quantity = 2
                            /\ orders[o].items[k].price = 10000
                            /\ orders[o].items[k].status # "Cancelled"
        /\ \E k \in 1..2 : /\ orders[o].items[k].item_id = "B"
                            /\ orders[o].items[k].quantity = 1
                            /\ orders[o].items[k].price = 5000
                            /\ orders[o].items[k].status # "Cancelled"
        /\ orders[o].discount_amount = 2500
        /\ calculate_total(o) = 24075

\* C25: set_price changes no line, subtotal or total of an order; a line
\* added afterwards carries the price the item has then
C25_PriceSnapshot ==
    [][ /\ last'.op = "set_price" =>
            \A o \in OrderObjs :
                /\ orders'[o].items = orders[o].items
                /\ calculate_subtotal(o)' = calculate_subtotal(o)
                /\ calculate_total(o)' = calculate_total(o)
        /\ (last'.op = "add_item" /\ last'.out = "None") =>
            LET items == orders'[last'.order].items
            IN  items[Len(items)].price = menu[last'.method].price
      ]_vars

\* item A repriced from 100.00 to 120.00 between two lines of one order: the
\* first line keeps 100.00, the second carries 120.00
C25_Witness ==
    \E o \in OrderObjs :
        /\ Len(orders[o].items) = 2
        /\ orders[o].items[1].item_id = "A"
        /\ orders[o].items[1].price = 10000
        /\ orders[o].items[2].item_id = "A"
        /\ orders[o].items[2].price = 12000
        /\ menu["A"].price = 12000
        /\ orders[o].items[1].status # "Cancelled"

LineEdge(s, t) ==
    \/ s = "Pending" /\ t = "Preparing"
    \/ s = "Preparing" /\ t = "Served"
    \/ s = "Pending" /\ t = "Cancelled"
    \/ s = "Preparing" /\ t = "Cancelled"

\* C26: a line's status moves only Pending->Preparing, Preparing->Served,
\* and Pending or Preparing->Cancelled, whatever the order operation
C26_LineStateMachine ==
    [][ \A o \in OrderObjs :
          (last'.op # "remove_item" /\ Len(orders'[o].items) >= Len(orders[o].items)) =>
            \A k \in DOMAIN orders[o].items :
                \/ orders'[o].items[k].status = orders[o].items[k].status
                \/ LineEdge(orders[o].items[k].status, orders'[o].items[k].status)
      ]_vars

\* ------------------------------------------------------------------------
\* Tables and board games
\* ------------------------------------------------------------------------
TableEdge(s, t, op) ==
    \/ s = "Available" /\ t = "Occupied" /\ op \in {"assign_customer", "check_in"}
    \/ s = "Occupied" /\ t = "Available" /\ op = "clear_table"
    \/ s = "Available" /\ t = "Maintenance" /\ op = "set_maintenance"
    \/ s = "Maintenance" /\ t = "Available" /\ op = "clear_table"

\* C27: a table's status moves only Available->Occupied (assign customer),
\* Occupied->Available (clear), Available->Maintenance (set maintenance) and
\* Maintenance->Available (clear); assign_customer on a table that is not
\* Available or is at capacity, and set_maintenance on an Occupied table, fail
\* and leave the table and the games unchanged
C27_TableStateMachine ==
    [][ \A t \in Tables :
          /\ tables'[t].status # tables[t].status
                => TableEdge(tables[t].status, tables'[t].status, last'.op)
          /\ ( /\ last'.op = "assign_customer"
               /\ last'.table = t
               /\ \/ tables[t].status # "Available"
                  \/ Len(tables[t].current_customers) >= capacity[t] )
                => (ValueErrors(last'.out) /\ tables'[t] = tables[t] /\ games' = games)
          /\ ( /\ last'.op = "set_maintenance"
               /\ last'.table = t
               /\ tables[t].status = "Occupied" )
                => (ValueErrors(last'.out) /\ tables'[t] = tables[t] /\ games' = games)
      ]_vars

\* set_maintenance refused on T001, Occupied with a game and an order, while
\* T002 is under maintenance
C27_Witness ==
    /\ last.op = "set_maintenance"
    /\ last.table = "T001"
    /\ ValueErrors(last.out)
    /\ tables["T001"].status = "Occupied"
    /\ tables["T001"].board_games # <<>>
    /\ tables["T001"].active_order # 0
    /\ tables["T002"].status = "Maintenance"

OccupiedSinceSet ==
    \A t \in Tables : (tables[t].status = "Occupied") <=> (tables[t].occupied_since # None)

\* C28: a table is Occupied exactly when its occupied-since is set, and
\* clear_table leaves the table Available with no customers, games, order
\* or timestamp
C28_OccupiedSince ==
    /\ []OccupiedSinceSet
    /\ [][ \A t \in Tables :
              (last'.op = "clear_table" /\ last'.table = t) => TableFreed(t) ]_vars

\* T002 has just been cleared of its customer while T001 is Occupied with its
\* timestamp, a game and an order
C28_Witness ==
    /\ last.op = "clear_table"
    /\ last.table = "T002"
    /\ last.guest_count = 1
    /\ tables["T002"].status = "Available"
    /\ tables["T002"].occupied_since = None
    /\ tables["T001"].status = "Occupied"
    /\ tables["T001"].occupied_since # None
    /\ tables["T001"].board_games # <<>>
    /\ tables["T001"].active_order # 0

\* C29: a game is in the game list of at most one table, and a game in a
\* table's list is In Use with its table link on that table
C29_GameOwnership ==
    \A g \in Games :
        /\ \A t1, t2 \in Tables : (holds_game(t1, g) /\ holds_game(t2, g)) => t1 = t2
        /\ \A t \in Tables :
              holds_game(t, g) => (games[g].status = "In Use" /\ games[g].current_table = t)

ReservationOps == CreateOps \cup LifecycleOps \cup {"Reservation"}

\* C32: creating, confirming, cancelling, completing a reservation, marking
\* it no-show and a failed check-in leave every table and game unchanged; a
\* successful check-in changes the reservation's table only; no table is
\* ever Reserved
C32_TableOnlyAtCheckIn ==
    /\ [](\A t \in Tables : tables[t].status # "Reserved")
    /\ [][ last'.op \in ReservationOps =>
              IF last'.op = "check_in" /\ last'.out = "True"
              THEN \A t \in Tables : t # res[last'.o].table => tables'[t] = tables[t]
              ELSE tables' = tables /\ games' = games
          ]_vars

\* a check-in refused because a walk-in sits at the reservation's table, the
\* table still holding the walk-in alone
C32_Witness ==
    /\ last.op = "check_in"
    /\ ValueErrors(last.out)
    /\ res[last.o].status = "Checked In"
    /\ tables[res[last.o].table].status = "Occupied"
    /\ tables[res[last.o].table].current_customers = <<WalkIn>>

\* C36: at every table the customers never exceed the capacity, the customer
\* list is non-empty exactly when the table is Occupied, an order is attached
\* only while it is Occupied, and assign_order on a table that is not
\* Occupied fails and changes nothing
C36_TableInvariants ==
    /\ [](\A t \in Tables :
            /\ Len(tables[t].current_customers) <= capacity[t]
            /\ (tables[t].current_customers # <<>>) <=> (tables[t].status = "Occupied")
            /\ tables[t].active_order # 0 => tables[t].status = "Occupied")
    /\ [][ \A t \in Tables :
              ( /\ last'.op = "assign_order"
                /\ last'.table = t
                /\ tables[t].status # "Occupied" )
              => (ValueErrors(last'.out) /\ tables' = tables)
          ]_vars

\* assign_order refused on T001 under maintenance while T002 is Occupied by
\* one customer
C36_Witness ==
    /\ last.op = "assign_order"
    /\ last.table = "T001"
    /\ ValueErrors(last.out)
    /\ tables["T001"].status = "Maintenance"
    /\ tables["T002"].status = "Occupied"
    /\ Len(tables["T002"].current_customers) = 1

\* C37: a successful create_reservation of a reservation not yet stored adds
\* exactly that one to the store, and every reservation that get_reservation
\* returned under its id is still returned under it afterwards
C37_StoredForGood ==
    [][ /\ ( /\ last'.op = "ReservationManager.create_reservation"
             /\ last'.out \in Returned
             /\ last'.o \notin MgrStored )
            => /\ MgrStored' = MgrStored \cup {last'.o}
               /\ \A x \in MgrStored :
                     ReservationManager_get_reservation(res[x].reservation_id) = x
                       => ReservationManager_get_reservation(res[x].reservation_id)' = x
        /\ ( /\ last'.op = "BoardGameCafe.create_reservation"
             /\ last'.out \in Returned
             /\ last'.o \notin BranchStored )
            => /\ BranchStored' = BranchStored \cup {last'.o}
               /\ \A x \in BranchStored :
                     get_reservation(res[x].reservation_id) = x
                       => get_reservation(res[x].reservation_id)' = x
      ]_vars

\* C38: mark_preparing on an item id succeeds whenever the Open order holds a
\* Pending line of that item, and mark_served whenever it holds a Preparing
\* one; remove_item on an item id the order does not hold changes nothing
C38_EveryLineDriven ==
    [][ \A o \in OrderObjs :
          LET has(status) == \E k \in DOMAIN orders[o].items :
                                /\ orders[o].items[k].item_id = last'.method
                                /\ orders[o].items[k].status = status
          IN  (last'.order = o /\ orders[o].status = "Open") =>
                /\ (last'.op = "mark_preparing" /\ has("Pending")) => last'.out = "None"
                /\ (last'.op = "mark_served" /\ has("Preparing")) => last'.out = "None"
                /\ (last'.op = "remove_item" /\ find_item(o, last'.method) = 0)
                      => orders' = orders
      ]_vars

\* ------------------------------------------------------------------------
\* The availability query
\* ------------------------------------------------------------------------
\* a stored Pending, Confirmed or Checked In reservation of the table with
\* start < its end and end > its start
WouldConflict(t, start, end) ==
    \E x \in MgrStored :
        /\ res[x].status \in ActiveStatuses
        /\ res[x].table = t
        /\ start < res[x].end_datetime
        /\ end > res[x].start_datetime

\* C35: the availability answer for a table is True exactly when a request
\* for that table would not be rejected for conflict, for every interval of
\* the day asked about
C35_AvailabilityAgrees ==
    [][ last'.op = "check_availability" =>
          \A s \in StartTimes, e \in StartTimes :
              s < e =>
                ( (last'.out = "True")
                    <=> ~WouldConflict(last'.table, strptime(last'.start, s),
                                       strptime(last'.start, e)) )
      ]_vars


\* C33: mark_in_use on a game that is not Available raises and leaves the
\* game's status, table link and play count as they were; a successful
\* mark_in_use leaves the game In Use, linked to the table, with its play
\* count one higher; mark_available never raises, whatever the status, and
\* leaves the game Available with no table link.
C33_MarkInUse ==
    [][ /\ last'.op = "mark_in_use" =>
            LET g == last'.game IN
            IF games[g].status # "Available"
            THEN /\ last'.out # "None"
                 /\ games'[g] = games[g]
            ELSE /\ last'.out = "None"
                 /\ games'[g].status = "In Use"
                 /\ games'[g].current_table = last'.table
                 /\ games'[g].times_played = games[g].times_played + 1
        /\ last'.op = "BoardGame.mark_available" =>
            /\ last'.out = "None"
            /\ games'[last'.game].status = "Available"
            /\ games'[last'.game].current_table = NoTableLink ]_vars

\* a refused mark_in_use on a game under Maintenance that was put in use once
\* and still carries the link to the table it was played on
C33_Witness ==
    /\ last.op = "mark_in_use"
    /\ last.out # "None"
    /\ last.table = "T002"
    /\ games[last.game].status = "Maintenance"
    /\ games[last.game].current_table = "T001"
    /\ games[last.game].times_played = 1

\* C34: completing a card payment with four digits, or an online payment, of
\* an open order leaves what completing a cash payment of that order leaves:
\* the call does not raise, a payment of the order for the order's total is
\* Completed, the order is Closed and its table, if it has one, is freed
C34_SameCompletion ==
    [][ ( /\ last'.op = "PaymentManager.process_payment"
          /\ last'.method \in {"card", "online"}
          /\ last'.method = "card" => (Len(last'.arg) = 4 /\ isdigit(last'.arg))
          /\ orders[last'.order].status = "Open"
          /\ calculate_total(last'.order) > 0 )
        => ( /\ last'.out \in {"ok", "True", "None"}
             /\ \E p \in 1..Len(payments') :
                    /\ p > Len(payments)
                    /\ payments'[p].order = last'.order
                    /\ payments'[p].total_amount = calculate_total(last'.order)
                    /\ status_of(payments'[p]) = "Completed"
             /\ orders'[last'.order].status = "Closed"
             /\ orders[last'.order].table # NoTable
                    => TableFreed(orders[last'.order].table) )
      ]_vars

\* C31: whatever the interleaving of two threads in create_reservation, the
\* manager never holds two active reservations of one table whose intervals
\* overlap, and never holds more active reservations of a member than the
\* member's quota
C31_Serialized ==
    /\ \A a, b \in MgrStored :
            ( /\ a # b
              /\ res[a].status \in ActiveStatuses
              /\ res[b].status \in ActiveStatuses
              /\ res[a].table = res[b].table )
            => ~overlaps(a, b)
    /\ \A c \in Members :
            count_active_reservations(c) <= get_max_active_bookings(c)
====
